---- MODULE Spec2Model ----
(***************************************************************************)
(* A model of the lupi state container (src/src/store.ts, class Store,     *)
(* lines 162-248) and of its persistence adapter (src/src/storage.ts,      *)
(* class LupiStorage), run by a JavaScript host: one thread of control, a  *)
(* FIFO microtask queue that is drained before the next macrotask, timers, *)
(* and asynchronous WebCrypto operations that complete as macrotasks.      *)
(*                                                                         *)
(* A step of the model is one uninterrupted run of JavaScript: a call of   *)
(* the Store's API up to its first await, one microtask, one timer         *)
(* callback, or the completion of one WebCrypto operation.                 *)
(***************************************************************************)
EXTENDS Integers, Sequences, FiniteSets

\* ------------------------------------------------------------ bounds
\* Number of mutation calls (update, set, reset) in one behaviour.
MaxOps == 2
\* Largest number held in a value.
MaxVal == 2
\* Number of listener callbacks the caller owns.
MaxListeners == 2
\* Number of clock steps that make one quiet interval.
TicksPerDelay == 3

\* ------------------------------------------------- program constants
\* private debounceDelayInMs = 300
debounceDelayInMs == 300

TimeStep == debounceDelayInMs \div TicksPerDelay

Min(a, b) == IF a < b THEN a ELSE b

\* ------------------------------------------------------------ values
\* A JavaScript value: a number, a boolean, a string, a record of the
\* fields Fields, an array of one-digit numbers (its elements kept as
\* their digits in s), or null.  Every value is a record of the same shape
\* so that two values can always be compared.
Fields == {"count", "isOdd"}
FieldOrder == <<"count", "isOdd">>
NoVal == [k \in Fields |-> 0]

NumV(n) == [t |-> "number", n |-> n, keys |-> {}, val |-> NoVal, s |-> <<>>]
BoolV(b) == [t |-> "boolean", n |-> IF b THEN 1 ELSE 0, keys |-> {}, val |-> NoVal, s |-> <<>>]
StrV(s) == [t |-> "string", n |-> 0, keys |-> {}, val |-> NoVal, s |-> s]
ObjV(keys, val) ==
    [t |-> "object", n |-> 0, keys |-> keys,
     val |-> [k \in Fields |-> IF k \in keys THEN val[k] ELSE 0], s |-> <<>>]
ArrV(elems) == [t |-> "array", n |-> 0, keys |-> {}, val |-> NoVal, s |-> elems]
Null == [t |-> "null", n |-> 0, keys |-> {}, val |-> NoVal, s |-> <<>>]

\* The falsy values of the supported types: 0, false and "".
FalsyValues == {NumV(0), BoolV(FALSE), StrV(<<>>)}

\* a || b
Coalesce_Or(a, b) == IF a = Null \/ a \in FalsyValues THEN b ELSE a

\* a ?? b
Coalesce(a, b) == IF a = Null THEN b ELSE a

\* The own enumerable properties an object spread {...v} copies: the
\* fields of a record, nothing for a number, a boolean or null.
SpreadKeys(v) == IF v.t = "object" THEN v.keys ELSE {}

\* { ...a, ...b }
Merge(a, b) ==
    ObjV(SpreadKeys(a) \cup SpreadKeys(b),
         [k \in Fields |-> IF k \in SpreadKeys(b) THEN b.val[k] ELSE a.val[k]])

\* The updater functions the caller passes to update():
\*   inc  is  n => n + 1         or  p => ({...p, count: p.count + 1})
\*   dbl  is  n => n * 2         or  p => ({...p, count: p.count * 2})
Updaters == {"inc", "dbl"}
UpdNum(u, n) == IF u = "inc" THEN n + 1 ELSE n * 2
ApplyUpdater(u, v) ==
    IF v.t = "number" THEN NumV(UpdNum(u, v.n))
    ELSE ObjV(v.keys, [v.val EXCEPT !["count"] = UpdNum(u, v.val["count"])])
CanApply(u, v) ==
    \/ v.t = "number" /\ UpdNum(u, v.n) <= MaxVal
    \/ v.t = "object" /\ "count" \in v.keys /\ UpdNum(u, v.val["count"]) <= MaxVal

\* The arguments the caller passes to set(): partial records, and a number
\* (README: copyWith(counter + 1) on a numeric store reaches Store.set).
SetArgs ==
    { ObjV({"count"}, [NoVal EXCEPT !["count"] = MaxVal]),
      ObjV({"isOdd"}, [NoVal EXCEPT !["isOdd"] = 1]),
      NumV(1) }

InitialStates == { NumV(0), ObjV(Fields, NoVal) }

\* ----------------------------------------------------------- strings
\* A JavaScript string is a sequence of atoms: single characters, and the
\* quoted field names of Fields (each one atom).
Digits == <<"0", "1", "2", "3", "4", "5", "6", "7", "8", "9">>
IsDigit(c) == \E i \in 1..Len(Digits) : Digits[i] = c
DigitVal(c) == CHOOSE i \in 0..(Len(Digits) - 1) : Digits[i + 1] = c
NaN == NumV(0 - 1)
StrTrue == <<"t", "r", "u", "e">>
StrFalse == <<"f", "a", "l", "s", "e">>
StrNull == <<"n", "u", "l", "l">>
StrNaN == <<"N", "a", "N">>

RECURSIVE NumStr(_)
NumStr(n) ==
    IF n < Len(Digits) THEN <<Digits[n + 1]>>
    ELSE NumStr(n \div Len(Digits)) \o <<Digits[(n % Len(Digits)) + 1]>>

RECURSIVE DigitsVal(_, _)
DigitsVal(s, acc) ==
    IF s = <<>> THEN acc
    ELSE DigitsVal(Tail(s), acc * Len(Digits) + DigitVal(Head(s)))

AllDigits(s) == \A i \in 1..Len(s) : IsDigit(s[i])

\* Number(s): the empty string is 0, a run of digits is its value,
\* anything else is NaN.
StrNum(s) == IF AllDigits(s) THEN NumV(DigitsVal(s, 0)) ELSE NaN

\* String(v) for a value that is not an object.
StringOf(v) ==
    IF v.t = "number" THEN (IF v = NaN THEN StrNaN ELSE NumStr(v.n))
    ELSE IF v.t = "boolean" THEN (IF v.n = 1 THEN StrTrue ELSE StrFalse)
    ELSE IF v.t = "null" THEN StrNull
    ELSE v.s

RECURSIVE MembersStr(_, _, _)
MembersStr(v, i, first) ==
    IF i > Len(FieldOrder) THEN <<>>
    ELSE IF FieldOrder[i] \in v.keys
         THEN (IF first THEN <<>> ELSE <<",">>)
              \o <<FieldOrder[i], ":">> \o NumStr(v.val[FieldOrder[i]])
              \o MembersStr(v, i + 1, FALSE)
         ELSE MembersStr(v, i + 1, first)

\* The elements of an array, separated by commas.
RECURSIVE ElemsStr(_)
ElemsStr(elems) ==
    IF Len(elems) <= 1 THEN elems
    ELSE <<Head(elems), ",">> \o ElemsStr(Tail(elems))

\* JSON.stringify(v) of a record, of an array or of null.
JsonStringify(v) ==
    IF v.t = "object" THEN <<"{">> \o MembersStr(v, 1, TRUE) \o <<"}">>
    ELSE IF v.t = "array" THEN <<"[">> \o ElemsStr(v.s) \o <<"]">>
    ELSE StringOf(v)

IsNumLit(s) == Len(s) >= 1 /\ AllDigits(s) /\ (Len(s) = 1 \/ s[1] # "0")

\* The index of the first "," of s at or after i, or Len(s) + 1.
RECURSIVE NextComma(_, _)
NextComma(s, i) ==
    IF i > Len(s) \/ s[i] = "," THEN i ELSE NextComma(s, i + 1)

ParseFail == [ok |-> FALSE, v |-> Null]

\* The members of a JSON object text, between its braces.
RECURSIVE ParseMembers(_, _)
ParseMembers(s, acc) ==
    IF Len(s) < 3 \/ s[1] \notin Fields \/ s[2] # ":" THEN ParseFail
    ELSE LET j == NextComma(s, 3)
             lit == SubSeq(s, 3, j - 1)
             got == ObjV(acc.keys \cup {s[1]},
                         [k \in Fields |-> IF k = s[1] THEN DigitsVal(lit, 0) ELSE acc.val[k]])
         IN  IF ~IsNumLit(lit) THEN ParseFail
             ELSE IF j > Len(s) THEN [ok |-> TRUE, v |-> got]
             ELSE ParseMembers(SubSeq(s, j + 1, Len(s)), got)

\* The elements of a JSON array text, between its brackets.
RECURSIVE ParseElems(_, _)
ParseElems(s, acc) ==
    IF s = <<>> \/ ~IsDigit(Head(s)) THEN ParseFail
    ELSE IF Len(s) = 1 THEN [ok |-> TRUE, v |-> ArrV(Append(acc, Head(s)))]
    ELSE IF s[2] # "," THEN ParseFail
    ELSE ParseElems(SubSeq(s, 3, Len(s)), Append(acc, Head(s)))

\* JSON.parse(s): ok is FALSE where JSON.parse throws.
JsonParse(s) ==
    IF IsNumLit(s) THEN [ok |-> TRUE, v |-> NumV(DigitsVal(s, 0))]
    ELSE IF s = StrTrue THEN [ok |-> TRUE, v |-> BoolV(TRUE)]
    ELSE IF s = StrFalse THEN [ok |-> TRUE, v |-> BoolV(FALSE)]
    ELSE IF s = StrNull THEN [ok |-> TRUE, v |-> Null]
    ELSE IF Len(s) >= 2 /\ s[1] = "{" /\ s[Len(s)] = "}"
         THEN (IF Len(s) = 2 THEN [ok |-> TRUE, v |-> ObjV({}, NoVal)]
               ELSE ParseMembers(SubSeq(s, 2, Len(s) - 1), ObjV({}, NoVal)))
    ELSE IF Len(s) >= 2 /\ s[1] = "[" /\ s[Len(s)] = "]"
         THEN (IF Len(s) = 2 THEN [ok |-> TRUE, v |-> ArrV(<<>>)]
               ELSE ParseElems(SubSeq(s, 2, Len(s) - 1), <<>>))
    ELSE ParseFail

\* ----------------------------------------------- persisted record format
\* What localStorage holds under the storage key:
\*   none      nothing (getItem returns null)
\*   envelope  JSON.stringify({ type, value })
\*   cipher    btoa(iv ++ AES-GCM ciphertext) of an envelope, under the key
\*             derived from passphrase pass
\*   garbage   a string that is neither JSON nor base64
NoItem == [kind |-> "none", pass |-> "", type |-> "", value |-> <<>>]
Garbage == [kind |-> "garbage", pass |-> "", type |-> "", value |-> <<>>]

\* typeof v
TypeOf(v) == IF v.t \in {"object", "array", "null"} THEN "object" ELSE v.t

\* LupiStorage.set: dataToStore
EnvelopeOf(v) ==
    IF TypeOf(v) = "object"
    THEN [kind |-> "envelope", pass |-> "",
          type |-> IF v.t = "array" THEN "array" ELSE "object", value |-> JsonStringify(v)]
    ELSE [kind |-> "envelope", pass |-> "", type |-> TypeOf(v), value |-> StringOf(v)]

\* A record stored as the text handed to encrypt.
Encrypt_None(item, pass) == item

\* LupiStorage.encrypt under the key derived from passphrase pass.
Encrypt(item, pass) == [item EXCEPT !.kind = "cipher", !.pass = pass]

\* The payload taken for what its text looks like, whatever the tag says.
DecodeEnvelope_ByShape(item) ==
    IF JsonParse(item.value).ok THEN JsonParse(item.value).v ELSE StrV(item.value)

\* LupiStorage.get: the switch on the envelope's type tag.  Null where
\* the code throws and the catch returns null.
DecodeEnvelope(item) ==
    IF item.type = "number" THEN StrNum(item.value)
    ELSE IF item.type = "boolean" THEN BoolV(item.value = StrTrue)
    ELSE IF item.type \in {"object", "array"}
         THEN (IF JsonParse(item.value).ok THEN JsonParse(item.value).v ELSE Null)
    ELSE StrV(item.value)

\* The error a get without its try/catch would hand to its caller.
Thrown == [Null EXCEPT !.t = "error"]
ParseRecord_NoCatch(item) ==
    IF item.kind = "envelope" THEN DecodeEnvelope(item) ELSE Thrown

\* LupiStorage.get from JSON.parse(decrypted) on: decrypted is the text of
\* item, which parses only if it is an envelope.
ParseRecord(item) == IF item.kind = "envelope" THEN DecodeEnvelope(item) ELSE Null

\* ------------------------------------------------------------- state
VARIABLES
    \* the arguments of createStore
    initialState, storageKey, encryptKey,
    \* the host: is there a window with localStorage, what it holds under
    \* the storage key, the timers set and not yet run (id, time left),
    \* the microtask queue, the WebCrypto operations in flight, and whether
    \* the caller's code started the turn whose microtasks are running
    hostAvailable, medium, timers, microtasks, io, userActive,
    \* Store
    state, listeners, debounceTimeout,
    \* LupiStorage
    cachedKey,
    \* history: the number of mutation calls made, the left fold of the
    \* updaters (Null once a mutation call was not an update), the time
    \* since the last mutation call (up to the quiet interval), the number
    \* of mutation calls since the last storage.set call of the timer
    \* callback, whether the in-memory value is still the one the last
    \* mutation call produced, the construction-time load (pending, or
    \* completed with a loaded value present or absent), the value of the
    \* last storage.set call that reached localStorage.setItem and was not
    \* refused by it (Null: none yet), and what the last step did
    nmuts, fold, sinceMut, burst, intact, load, written, ev

config == <<initialState, storageKey, encryptKey, hostAvailable>>
host == <<medium, timers, microtasks, io, userActive>>
store == <<state, listeners, debounceTimeout, cachedKey>>
history == <<nmuts, fold, sinceMut, burst, intact, load, written, ev>>
vars == <<config, host, store, history>>

Listeners == 1..MaxListeners

\* Microtask jobs.
\*   loadCont  _loadState resumes after  await this.storage.get(key)  with v
\*   loadDone  the constructor's .then callback, with the loaded state v;
\*             absent records that storage.get gave null
\*   notify    update/set/reset resumes after  await this._persistState();
\*             src is the number of the call, and for the record v is the
\*             value the call produced, reg whether the observed listener
\*             was registered when it was made, pre whether no load
\*             completion had run by then
NoJob == [k |-> "", v |-> Null, src |-> 0, reg |-> FALSE, pre |-> FALSE, absent |-> FALSE,
          base |-> Null]
LoadCont(v) == [NoJob EXCEPT !.k = "loadCont", !.v = v]
LoadDone(v, absent) == [NoJob EXCEPT !.k = "loadDone", !.v = v, !.absent = absent]
Notify(v, src, reg, pre) ==
    [NoJob EXCEPT !.k = "notify", !.v = v, !.src = src, !.reg = reg, !.pre = pre]
\* dispatch suspended at  await this.actions[actionName](this.state, ...args):
\* v is what the action returned, base the value it was handed.
DispatchCont(v, base, src, reg, pre) ==
    [NoJob EXCEPT !.k = "dispatchCont", !.v = v, !.base = base, !.src = src,
                  !.reg = reg, !.pre = pre]

\* WebCrypto operations in flight, each the current await of a
\* LupiStorage.get or LupiStorage.set call.
\* item is the record a get read or a set is to write; v is the value the
\* set was handed, and for a get the value last written when it read.
Op(op, stage, item, v) == [op |-> op, stage |-> stage, item |-> item, v |-> v]

\* What the last step did.
\*   e       create, update, set, reset, dispatch (the call), dispatched
\*           (its assignment), loadDone, notify, fire, or other
\*           (subscribe, unsubscribe, _loadState resuming, time passing,
\*           a WebCrypto operation completing)
\*   v       the value a mutation call produced, a notification pass handed
\*           to the listeners, a timer callback handed to storage.set
\*   same    the step left the in-memory value as it was
\*   rec     the in-memory value was a record before the step
\*   src     the number of the mutation call made or notified (0: the load)
\*   want, reg, pre, absent   the record of the job run
\*   ls      the listeners a notification pass invoked, in order
\*   before  the listeners registered when the pass began, in order
\*   by, un  listener by, invoked in the pass, unsubscribed listener un
\*           (un = 0: no listener unsubscribed during the pass)
\*   dup     the listener subscribed was registered already
\*   load    the construction-time load before the step
\*   armed   _persistState ran;  rearm   a timer was pending when it ran
\*   id      the timer that fired
\*   since   the time since the last mutation call, before the step
\*   burst   the mutation calls since the last storage.set, before the step
\*   calls   the Adapter operations the step invoked
\*   item    the record a LupiStorage.get read
\*   ret     a LupiStorage.get call returned;  got   the value it returned
\*   failed  localStorage.setItem or crypto.subtle.encrypt threw
\*   stale   the value dispatch assigned was computed from a value that was
\*           no longer held when it was assigned
NoEv == [e |-> "", v |-> Null, same |-> TRUE, rec |-> FALSE, src |-> 0, want |-> Null,
         reg |-> FALSE, pre |-> FALSE, absent |-> FALSE, ls |-> <<>>, before |-> <<>>,
         by |-> 0, un |-> 0, dup |-> FALSE, load |-> "",
         armed |-> FALSE, rearm |-> FALSE, id |-> 0, since |-> 0, burst |-> 0,
         calls |-> {}, item |-> NoItem, ret |-> FALSE, got |-> Null, failed |-> FALSE,
         stale |-> FALSE]
Other == [NoEv EXCEPT !.e = "other"]

\* --------------------------------------------------------- LupiStorage
\* The guard that opens get, set and del: no key, or no window/localStorage.
NoStorage(key) == key = "" \/ ~hostAvailable

\* getKey: the first WebCrypto operation an encrypt or decrypt waits for.
FirstStage == IF cachedKey THEN "crypt" ELSE "importKey"

\* LupiStorage.get(key), called by the constructor through _loadState, up
\* to its first await of a WebCrypto operation or to its return: the
\* microtasks and the operations in flight it leaves.
\* ret says whether the call returned, and got what it returned.  With the
\* key derived already, decrypt reaches atob(value) without waiting for a
\* WebCrypto operation, and atob throws on a string that is not base64.
StorageGet(key) ==
    IF NoStorage(key) \/ medium = NoItem
    THEN [jobs |-> <<LoadCont(Null)>>, io |-> <<>>, ret |-> TRUE, got |-> Null]
    ELSE IF encryptKey = ""
    THEN [jobs |-> <<LoadCont(ParseRecord(medium))>>, io |-> <<>>,
          ret |-> TRUE, got |-> ParseRecord(medium)]
    ELSE IF cachedKey /\ medium.kind # "cipher"
    THEN [jobs |-> <<LoadCont(Null)>>, io |-> <<>>, ret |-> TRUE, got |-> Null]
    ELSE [jobs |-> <<>>, io |-> <<Op("get", FirstStage, medium, written)>>,
          ret |-> FALSE, got |-> Null]

\* LupiStorage.set(key, v), up to its first await of a WebCrypto operation
\* or to its return.  ok says whether localStorage.setItem accepts the
\* record; where it throws, the catch logs and set returns.
StorageSet(key, v, ok) ==
    IF NoStorage(key) THEN UNCHANGED <<medium, io, written>>
    ELSE IF encryptKey = ""
    THEN /\ medium' = IF ok THEN EnvelopeOf(v) ELSE medium
         /\ written' = IF ok THEN v ELSE written
         /\ UNCHANGED io
    ELSE /\ io' = Append(io, Op("set", FirstStage, EnvelopeOf(v), v))
         /\ UNCHANGED <<medium, written>>

\* LupiStorage.del(key): localStorage.removeItem(key).
StorageDel(key) ==
    IF NoStorage(key) THEN UNCHANGED <<medium, written>>
    ELSE medium' = NoItem /\ written' = Null

\* A storage.set call in which localStorage.setItem threw.
SetRefused(key, ok) == ~ok /\ ~NoStorage(key) /\ encryptKey = ""

\* LupiStorage.set without its try/catch: a failure rejects the promise
\* set returned, and the rejection is queued for the code that awaits it.
SetSettles_Rejecting(failed) ==
    microtasks' = IF failed THEN Append(microtasks, [NoJob EXCEPT !.k = "reject"])
                  ELSE microtasks

\* LupiStorage.set's catch: a failure is logged and goes no further; the
\* promise set returned resolves either way, and nothing is queued.
SetSettles(failed) == UNCHANGED microtasks

\* --------------------------------------------------------------- Store
\* _loadState(initialState), called by the constructor, up to its first
\* await or to its return.
_loadState ==
    IF storageKey = ""
    THEN [jobs |-> <<LoadDone(initialState, TRUE)>>, io |-> <<>>, calls |-> {},
          ret |-> FALSE, got |-> Null]
    ELSE [jobs |-> StorageGet(storageKey).jobs, io |-> StorageGet(storageKey).io,
          calls |-> {"get"}, ret |-> StorageGet(storageKey).ret,
          got |-> StorageGet(storageKey).got]

\* What localStorage may hold when the Store is created: nothing, a string
\* that is no record, the record an earlier Store of the same type wrote,
\* in the clear or under a passphrase, or a record with the type tag of a
\* value that is none of number, boolean, object, array and string
\* (LupiStorage.set writes typeof value as the tag: "bigint", "undefined").
\* A cipher under the passphrase "other" is one that the Store's key does
\* not decrypt: written under another passphrase, truncated or altered.
StoredValue(init) ==
    IF init.t = "number" THEN NumV(MaxVal)
    ELSE ObjV(Fields, [NoVal EXCEPT !["count"] = MaxVal])
KnownTags == {"number", "boolean", "object", "array", "string"}
UnknownTag(init) == [EnvelopeOf(StoredValue(init)) EXCEPT !.type = "bigint"]
InitialMedia(init) ==
    {NoItem, Garbage, EnvelopeOf(StoredValue(init)), UnknownTag(init)}
    \cup { Encrypt(EnvelopeOf(StoredValue(init)), pw) : pw \in {"pw", "other"} }

\* The state when the constructor returns, for the given arguments and host.
Constructed ==
    /\ state = initialState
    /\ listeners = <<>>
    /\ debounceTimeout = 0
    /\ cachedKey = FALSE
    /\ timers = {}
    /\ written = Null
    /\ microtasks = _loadState.jobs
    /\ io = _loadState.io
    /\ userActive = (microtasks # <<>>)
    /\ nmuts = 0
    /\ fold = initialState
    /\ sinceMut = 0
    /\ burst = 0
    /\ intact = TRUE
    /\ load = "pending"
    /\ ev = [NoEv EXCEPT !.e = "create", !.v = initialState, !.calls = _loadState.calls,
                         !.item = IF _loadState.calls = {} THEN NoItem ELSE medium,
                         !.ret = _loadState.ret, !.got = _loadState.got]

\* createStore's arguments and the host it runs in.  Without a storage key
\* the medium is never looked at, and is taken empty.
Init ==
    /\ initialState \in InitialStates
    /\ storageKey \in {"", "k"}
    /\ encryptKey \in {"", "pw"}
    /\ hostAvailable \in BOOLEAN
    /\ medium \in (IF hostAvailable /\ storageKey # ""
                   THEN InitialMedia(initialState) ELSE {NoItem})
    /\ Constructed

\* The caller's code runs: in a turn of its own, or in the turn it started
\* (back-to-back calls, or calls from its own microtasks).
CanCall == userActive \/ microtasks = <<>>

\* A macrotask starts only when the microtask queue is empty.
CanStartTask == microtasks = <<>>

\* A timer id no timer in use has.
FreshTimer ==
    CHOOSE i \in 1..(Cardinality(timers) + 2) :
        i # debounceTimeout /\ \A t \in timers : t.id # i

\* _persistState without its clearTimeout: the timer already set stays set.
_persistState_NoCancel ==
    /\ timers' = timers \cup {[id |-> FreshTimer, left |-> debounceDelayInMs]}
    /\ debounceTimeout' = FreshTimer

\* _persistState as a throttle: a timer already set is left to run.
_persistState_KeepPending ==
    IF timers # {}
    THEN UNCHANGED <<timers, debounceTimeout>>
    ELSE /\ timers' = {[id |-> FreshTimer, left |-> debounceDelayInMs]}
         /\ debounceTimeout' = FreshTimer

\* _persistState: clearTimeout(this.debounceTimeout), then setTimeout.
_persistState ==
    /\ timers' = {t \in timers : t.id # debounceTimeout}
                 \cup {[id |-> FreshTimer, left |-> debounceDelayInMs]}
    /\ debounceTimeout' = FreshTimer

ListenerSet == {listeners[i] : i \in 1..Len(listeners)}

\* The listener whose registration the history follows; the listeners are
\* interchangeable.
Observed == CHOOSE l \in Listeners : \A m \in Listeners : l <= m

\* What the listeners do when they are invoked: nothing to the Store, or
\* one of them, by, calls the unsubscribe function of listener un (of
\* itself or of another listener).
NoListener == 0
Unsubscribed == Listeners \cup {NoListener}

\* Set.prototype.forEach over a snapshot of the registry: every listener of
\* order is invoked, whatever was deleted meanwhile.
RECURSIVE ForEach_Snapshot(_, _, _, _, _)
ForEach_Snapshot(order, i, gone, by, un) ==
    IF i > Len(order) THEN [ls |-> <<>>, gone |-> gone]
    ELSE LET g == IF order[i] = by /\ un # NoListener THEN gone \cup {un} ELSE gone
             r == ForEach_Snapshot(order, i + 1, g, by, un)
         IN  [ls |-> <<order[i]>> \o r.ls, gone |-> r.gone]

\* this.listeners.forEach(callback => callback(...)) from entry i of the
\* Set on, in insertion order: an entry deleted before it is reached is not
\* visited.  The listeners invoked, and the listeners deleted.
RECURSIVE ForEach(_, _, _, _, _)
ForEach(order, i, gone, by, un) ==
    IF i > Len(order) THEN [ls |-> <<>>, gone |-> gone]
    ELSE IF order[i] \in gone THEN ForEach(order, i + 1, gone, by, un)
    ELSE LET g == IF order[i] = by /\ un # NoListener THEN gone \cup {un} ELSE gone
             r == ForEach(order, i + 1, g, by, un)
         IN  [ls |-> <<order[i]>> \o r.ls, gone |-> r.gone]

\* this.listeners.forEach((callback) => callback(this.state)), the state
\* being v, run by microtask job.
Notified(v, job, by, un) ==
    LET pass == ForEach(listeners, 1, {}, by, un)
    IN  [NoEv EXCEPT !.e = job.k, !.v = v, !.same = (v = state), !.src = job.src,
                     !.want = job.v, !.reg = job.reg, !.pre = job.pre,
                     !.absent = job.absent, !.ls = pass.ls, !.before = listeners,
                     !.by = IF pass.gone = {} THEN NoListener ELSE by,
                     !.un = IF pass.gone = {} THEN NoListener ELSE un,
                     !.load = load]

\* The registry after that pass.
Remaining(by, un) ==
    LET pass == ForEach(listeners, 1, {}, by, un)
    IN  SelectSeq(listeners, LAMBDA x : x \notin pass.gone)

\* update, set and reset up to their  await this._persistState().
Mutate(op, v) ==
    /\ CanCall
    /\ nmuts < MaxOps
    /\ state' = v
    /\ _persistState
    /\ microtasks' = Append(microtasks,
                             Notify(v, nmuts + 1, Observed \in ListenerSet, load = "pending"))
    /\ userActive' = TRUE
    /\ nmuts' = nmuts + 1
    /\ sinceMut' = 0
    /\ burst' = burst + 1
    /\ intact' = TRUE
    /\ ev' = [NoEv EXCEPT !.e = op, !.v = v, !.same = (v = state),
                          !.rec = (state.t = "object"), !.src = nmuts + 1,
                          !.since = sinceMut,
                          !.armed = TRUE, !.rearm = (timers # {}), !.load = load]
    /\ UNCHANGED <<config, medium, io, listeners, cachedKey, load, written>>

update(u) ==
    /\ CanApply(u, state)
    /\ Mutate("update", ApplyUpdater(u, state))
    /\ fold' = IF fold = Null THEN Null ELSE ApplyUpdater(u, fold)

set(newState) ==
    /\ state.t # "string"
    /\ Mutate("set", Merge(state, newState))
    /\ fold' = Null

\* reset going back to the value localStorage holds, when it holds one.
reset_ToPersisted ==
    /\ Mutate("reset", IF NoStorage(storageKey) \/ encryptKey # ""
                       THEN initialState
                       ELSE Coalesce(ParseRecord(medium), initialState))
    /\ fold' = Null

reset ==
    /\ Mutate("reset", initialState)
    /\ fold' = Null

\* this.listeners as an array: push(callback).
subscribe_Push(l) ==
    /\ CanCall
    /\ listeners' = Append(listeners, l)
    /\ userActive' = (microtasks # <<>>)
    /\ ev' = [NoEv EXCEPT !.e = "subscribe", !.dup = (l \in ListenerSet)]
    /\ UNCHANGED <<config, medium, timers, microtasks, io, state, debounceTimeout,
                   cachedKey, nmuts, fold, sinceMut, burst, intact, load, written>>

\* this.listeners.add(callback): a Set keeps one entry per callback.
subscribe(l) ==
    /\ CanCall
    /\ listeners' = IF l \in ListenerSet THEN listeners ELSE Append(listeners, l)
    /\ userActive' = (microtasks # <<>>)
    /\ ev' = [NoEv EXCEPT !.e = "subscribe", !.dup = (l \in ListenerSet)]
    /\ UNCHANGED <<config, medium, timers, microtasks, io, state, debounceTimeout,
                   cachedKey, nmuts, fold, sinceMut, burst, intact, load, written>>

\* The function subscribe returned.
unsubscribe(l) ==
    /\ CanCall
    /\ l \in ListenerSet
    /\ listeners' = SelectSeq(listeners, LAMBDA x : x # l)
    /\ userActive' = (microtasks # <<>>)
    /\ ev' = Other
    /\ UNCHANGED <<config, medium, timers, microtasks, io, state, debounceTimeout,
                   cachedKey, nmuts, fold, sinceMut, burst, intact, load, written>>

\* One microtask runs; the turn is the caller's as long as its queue lasts.
Dequeue(more) ==
    /\ microtasks' = Tail(microtasks) \o more
    /\ userActive' = (userActive /\ Tail(microtasks) \o more # <<>>)

\* _loadState after  await this.storage.get(key):  return savedState ?? initialState.
LoadStateReturn ==
    /\ microtasks # <<>> /\ Head(microtasks).k = "loadCont"
    /\ Dequeue(<<LoadDone(Coalesce(Head(microtasks).v, initialState),
                          Head(microtasks).v = Null)>>)
    /\ ev' = Other
    /\ UNCHANGED <<config, medium, timers, io, store, nmuts, fold, sinceMut,
                   burst, intact, load, written>>

\* A .then callback that also calls this._persistState().
LoadCompletion_Persisting(by, un) ==
    /\ microtasks # <<>> /\ Head(microtasks).k = "loadDone"
    /\ Dequeue(<<>>)
    /\ state' = Head(microtasks).v
    /\ _persistState
    /\ listeners' = Remaining(by, un)
    /\ ev' = [Notified(Head(microtasks).v, Head(microtasks), by, un) EXCEPT !.armed = TRUE]
    /\ load' = IF Head(microtasks).absent THEN "absent" ELSE "present"
    /\ intact' = (intact /\ Head(microtasks).v = state)
    /\ UNCHANGED <<config, medium, io, cachedKey, nmuts, fold, sinceMut, burst, written>>

\* The constructor's .then callback.
LoadCompletion(by, un) ==
    /\ microtasks # <<>> /\ Head(microtasks).k = "loadDone"
    /\ Dequeue(<<>>)
    /\ state' = Head(microtasks).v
    /\ listeners' = Remaining(by, un)
    /\ ev' = Notified(Head(microtasks).v, Head(microtasks), by, un)
    /\ load' = IF Head(microtasks).absent THEN "absent" ELSE "present"
    /\ intact' = (intact /\ Head(microtasks).v = state)
    /\ UNCHANGED <<config, medium, timers, io, debounceTimeout, cachedKey,
                   nmuts, fold, sinceMut, burst, written>>

\* update, set and reset after their  await this._persistState().
NotifyListeners(by, un) ==
    /\ microtasks # <<>> /\ Head(microtasks).k = "notify"
    /\ Dequeue(<<>>)
    /\ listeners' = Remaining(by, un)
    /\ ev' = Notified(state, Head(microtasks), by, un)
    /\ UNCHANGED <<config, medium, timers, io, state, debounceTimeout, cachedKey,
                   nmuts, fold, sinceMut, burst, intact, load, written>>

\* The names dispatch is called with: the declared actions, which are the
\* updaters taking no argument, and a name that is not declared.
Undeclared == "none"
ActionNames == Updaters \cup {Undeclared}

\* dispatch(a) up to its  await this.actions[a](this.state):  the action is
\* called with the value held now; an undeclared name is logged.
dispatch(a) ==
    /\ CanCall
    /\ nmuts < MaxOps
    /\ IF a \in Updaters
       THEN /\ CanApply(a, state)
            /\ microtasks' = Append(microtasks,
                   DispatchCont(ApplyUpdater(a, state), state, nmuts + 1,
                                Observed \in ListenerSet, load = "pending"))
            /\ userActive' = TRUE
            /\ nmuts' = nmuts + 1
            /\ fold' = IF fold = Null \/ ~CanApply(a, fold) THEN Null
                       ELSE ApplyUpdater(a, fold)
            /\ ev' = [NoEv EXCEPT !.e = "dispatch", !.v = ApplyUpdater(a, state),
                                  !.src = nmuts + 1, !.load = load]
       ELSE /\ ev' = Other
            /\ UNCHANGED <<microtasks, userActive, nmuts, fold>>
    /\ UNCHANGED <<config, medium, timers, io, store, sinceMut, burst, intact,
                   load, written>>

\* dispatch after that await: assign the result, _persistState(), and
\* suspend at  await this._persistState().
DispatchResume ==
    /\ microtasks # <<>> /\ Head(microtasks).k = "dispatchCont"
    /\ LET job == Head(microtasks)
       IN  /\ state' = job.v
           /\ _persistState
           /\ Dequeue(<<Notify(job.v, job.src, job.reg, job.pre)>>)
           /\ ev' = [NoEv EXCEPT !.e = "dispatched", !.v = job.v,
                                 !.same = (job.v = state), !.src = job.src,
                                 !.pre = job.pre, !.stale = (job.base # state),
                                 !.since = sinceMut, !.armed = TRUE,
                                 !.rearm = (timers # {}), !.load = load]
    /\ sinceMut' = 0
    /\ burst' = burst + 1
    /\ intact' = TRUE
    /\ UNCHANGED <<config, medium, io, listeners, cachedKey, nmuts, fold, load,
                   written>>

\* The timer callback without its  if (this.storageKey).
TimerCallback_Unguarded(id) ==
    \E ok \in BOOLEAN :
        /\ StorageSet(storageKey, state, ok)
        /\ SetSettles(SetRefused(storageKey, ok))
        /\ ev' = [NoEv EXCEPT !.e = "fire", !.id = id, !.v = state, !.since = sinceMut,
                              !.burst = burst, !.calls = {"set"},
                              !.failed = SetRefused(storageKey, ok)]

\* The callback _persistState hands to setTimeout, run for timer id.
TimerCallback(id) ==
    IF storageKey # ""
    THEN \E ok \in BOOLEAN :
             /\ StorageSet(storageKey, state, ok)
             /\ SetSettles(SetRefused(storageKey, ok))
             /\ ev' = [NoEv EXCEPT !.e = "fire", !.id = id, !.v = state,
                                   !.since = sinceMut, !.burst = burst, !.calls = {"set"},
                                   !.failed = SetRefused(storageKey, ok)]
    ELSE /\ UNCHANGED <<medium, io, written, microtasks>>
         /\ ev' = [NoEv EXCEPT !.e = "fire", !.id = id, !.since = sinceMut,
                               !.burst = burst]

\* A timer whose time is up runs its callback.
TimerFire ==
    /\ CanStartTask
    /\ \E t \in timers :
        /\ t.left = 0
        /\ timers' = timers \ {t}
        /\ TimerCallback(t.id)
    /\ burst' = 0
    /\ userActive' = FALSE
    /\ UNCHANGED <<config, store, nmuts, fold, sinceMut, intact, load>>

\* Time passes, up to the moment the next timer is due.
TimeLeft == CHOOSE d \in {t.left : t \in timers} : \A t \in timers : d <= t.left
Tick ==
    /\ CanStartTask
    /\ timers # {}
    /\ \A t \in timers : t.left > 0
    /\ timers' = {[t EXCEPT !.left = @ - Min(TimeStep, TimeLeft)] : t \in timers}
    /\ sinceMut' = Min(debounceDelayInMs, sinceMut + Min(TimeStep, TimeLeft))
    /\ userActive' = FALSE
    /\ ev' = Other
    /\ UNCHANGED <<config, medium, microtasks, io, store, nmuts, fold, burst, intact,
                   load, written>>

\* The text a cipher record decrypts to.
Decrypted(item) == [item EXCEPT !.kind = "envelope", !.pass = ""]

\* The WebCrypto operation that call i of LupiStorage awaits completes, and
\* the call runs on to its next await or to its end.  ok says whether
\* crypto.subtle.encrypt and localStorage.setItem succeed.
IoComplete(i) ==
    /\ CanStartTask
    /\ i \in 1..Len(io)
    /\ userActive' = FALSE
    /\ LET o == io[i]
           rest == SubSeq(io, 1, i - 1) \o SubSeq(io, i + 1, Len(io))
           got == IF o.item.kind = "cipher" /\ o.item.pass = encryptKey
                  THEN ParseRecord(Decrypted(o.item)) ELSE Null
       IN  CASE o.stage = "importKey" ->
                  /\ io' = [io EXCEPT ![i].stage = "deriveKey"]
                  /\ ev' = Other
                  /\ UNCHANGED <<medium, microtasks, cachedKey, written>>
             [] o.stage = "deriveKey" /\ o.op = "get" /\ o.item.kind # "cipher" ->
                  \* atob(value) throws: get returns null
                  /\ cachedKey' = TRUE
                  /\ io' = rest
                  /\ microtasks' = <<LoadCont(Null)>>
                  /\ ev' = [NoEv EXCEPT !.e = "get", !.item = o.item, !.ret = TRUE,
                                        !.got = Null, !.want = o.v]
                  /\ UNCHANGED <<medium, written>>
             [] o.stage = "deriveKey" /\ ~(o.op = "get" /\ o.item.kind # "cipher") ->
                  /\ cachedKey' = TRUE
                  /\ io' = [io EXCEPT ![i].stage = "crypt"]
                  /\ ev' = Other
                  /\ UNCHANGED <<medium, microtasks, written>>
             [] o.stage = "crypt" /\ o.op = "get" ->
                  \* crypto.subtle.decrypt rejects under another key
                  /\ io' = rest
                  /\ microtasks' = <<LoadCont(got)>>
                  /\ ev' = [NoEv EXCEPT !.e = "get", !.item = o.item, !.ret = TRUE,
                                        !.got = got, !.want = o.v]
                  /\ UNCHANGED <<medium, cachedKey, written>>
             [] o.stage = "crypt" /\ o.op = "set" ->
                  \E ok \in BOOLEAN :
                      /\ io' = rest
                      /\ medium' = IF ok THEN Encrypt(o.item, encryptKey) ELSE medium
                      /\ written' = IF ok THEN o.v ELSE written
                      /\ ev' = [NoEv EXCEPT !.e = "write", !.v = o.v, !.failed = ~ok]
                      /\ SetSettles(~ok)
                      /\ UNCHANGED cachedKey
    /\ UNCHANGED <<config, timers, state, listeners, debounceTimeout, nmuts, fold,
                   sinceMut, burst, intact, load>>

\* The caller's calls, with one callback to subscribe.
UserCall ==
    \/ \E u \in Updaters : update(u)
    \/ \E a \in SetArgs : set(a)
    \/ reset
    \/ subscribe(Observed)
    \/ unsubscribe(Observed)

\* The steps of a Store whose adapter does not encrypt.
NextPlain ==
    \/ UserCall
    \/ LoadStateReturn
    \/ LoadCompletion(Observed, NoListener)
    \/ NotifyListeners(Observed, NoListener)
    \/ TimerFire
    \/ Tick

\* The steps of a Store without a storage key: _loadState returns at once.
NextNoKey ==
    \/ UserCall
    \/ LoadCompletion(Observed, NoListener)
    \/ NotifyListeners(Observed, NoListener)
    \/ TimerFire
    \/ Tick

Next ==
    \/ NextPlain
    \/ \E i \in 1..Len(io) : IoComplete(i)

\* Every Store.
Spec == Init /\ [][Next]_vars

\* The Stores created without a storage key.
InitNoKey == Init /\ storageKey = ""
SpecNoKey == InitNoKey /\ [][NextNoKey]_vars

\* The Stores created with a storage key and without a passphrase.
InitPlain == Init /\ storageKey # "" /\ encryptKey = ""
SpecPlain == InitPlain /\ [][NextPlain]_vars

\* The Stores of a number created with a storage key and a passphrase,
\* over nothing, a record in the clear, or a cipher.
InitEncrypted ==
    /\ Init
    /\ initialState.t = "number" /\ storageKey # "" /\ encryptKey # ""
    /\ medium \notin {Garbage, UnknownTag(initialState)}
SpecEncrypted == InitEncrypted /\ [][Next]_vars

\* The Stores of SpecEncrypted in a host where crypto.subtle.encrypt and
\* localStorage.setItem never fail.
NextNoFailure == Next /\ ~ev'.failed
SpecNoFailure == InitEncrypted /\ [][NextNoFailure]_vars

\* The Stores created with a storage key in a host without localStorage.
InitNoHost == Init /\ storageKey # "" /\ hostAvailable = FALSE
SpecNoHost == InitNoHost /\ [][NextPlain]_vars

\* The Stores of a truthy number, boolean or string created with a storage
\* key over a medium that holds nothing, text that does not parse, or the
\* record of the falsy value of that type, in plaintext or encrypted.
TruthyStates == {NumV(1), BoolV(TRUE), StrV(<<"1">>)}
FalsyOf(init) == CHOOSE f \in FalsyValues : f.t = init.t
InitFalsy ==
    /\ initialState \in TruthyStates
    /\ storageKey = "k"
    /\ encryptKey \in {"", "pw"}
    /\ hostAvailable = TRUE
    /\ medium \in {NoItem, Garbage,
                   IF encryptKey = "" THEN EnvelopeOf(FalsyOf(initialState))
                   ELSE Encrypt(EnvelopeOf(FalsyOf(initialState)), encryptKey)}
    /\ Constructed
SpecFalsy == InitFalsy /\ [][Next]_vars

\* The Stores created without a storage key whose actions are dispatched.
NextDispatch ==
    \/ NextNoKey
    \/ \E a \in ActionNames : dispatch(a)
    \/ DispatchResume
SpecDispatch == InitNoKey /\ [][NextDispatch]_vars

\* The Stores of a number created without a storage key or a passphrase,
\* before any timer expires, with every callback of the caller subscribing
\* and unsubscribing, from the caller's code or from inside a notification
\* pass.
InitListeners ==
    /\ Init
    /\ initialState.t = "number" /\ storageKey = "" /\ encryptKey = "" /\ hostAvailable = TRUE
NextListeners ==
    \/ \E u \in Updaters : update(u)
    \/ reset
    \/ \E l \in Listeners : subscribe(l)
    \/ \E l \in Listeners : unsubscribe(l)
    \/ \E by \in Listeners, un \in Unsubscribed : LoadCompletion(by, un)
    \/ \E by \in Listeners, un \in Unsubscribed : NotifyListeners(by, un)
SpecListeners == InitListeners /\ [][NextListeners]_vars

\* ------------------------------------------------- the adapter alone
\* A LupiStorage that its owner calls directly, as the Store does: set with
\* a value, get, del, and awaits of what they return.  nmuts counts the
\* calls made.
AdapterValues ==
    { NumV(n) : n \in 0..MaxVal } \cup { BoolV(b) : b \in BOOLEAN }
    \cup { StrV(str) : str \in {<<>>, <<"1">>, StrTrue, <<"{", "}">>} }
    \cup { ObjV({}, NoVal), ObjV({"count"}, [NoVal EXCEPT !["count"] = MaxVal]),
           ObjV(Fields, [k \in Fields |-> 1]) }
    \cup { ArrV(<<>>), ArrV(<<"1", "2">>) }

InitAdapter ==
    /\ initialState = NumV(0)
    /\ storageKey \in {"", "k"}
    /\ encryptKey \in {"", "pw"}
    /\ hostAvailable \in BOOLEAN
    /\ medium \in (IF hostAvailable /\ storageKey # ""
                   THEN InitialMedia(initialState) ELSE {NoItem})
    /\ state = initialState
    /\ listeners = <<>>
    /\ debounceTimeout = 0
    /\ cachedKey = FALSE
    /\ timers = {}
    /\ microtasks = <<>>
    /\ io = <<>>
    /\ userActive = FALSE
    /\ nmuts = 0
    /\ fold = Null
    /\ sinceMut = 0
    /\ burst = 0
    /\ intact = TRUE
    /\ load = "pending"
    /\ written = Null
    /\ ev = [NoEv EXCEPT !.e = "new"]

AdapterFrame ==
    UNCHANGED <<config, timers, userActive, state, listeners, debounceTimeout, fold,
                sinceMut, burst, intact, load>>

AdapterSet(v) ==
    /\ microtasks = <<>>
    /\ nmuts < MaxOps
    /\ nmuts' = nmuts + 1
    /\ \E ok \in BOOLEAN :
           /\ StorageSet(storageKey, v, ok)
           /\ SetSettles(SetRefused(storageKey, ok))
           /\ ev' = [NoEv EXCEPT !.e = "set", !.v = v, !.calls = {"set"},
                                 !.failed = SetRefused(storageKey, ok)]
    /\ UNCHANGED cachedKey
    /\ AdapterFrame

AdapterGet ==
    /\ microtasks = <<>>
    /\ nmuts < MaxOps
    /\ nmuts' = nmuts + 1
    /\ microtasks' = StorageGet(storageKey).jobs
    /\ io' = io \o StorageGet(storageKey).io
    /\ ev' = [NoEv EXCEPT !.e = "get", !.calls = {"get"}, !.item = medium,
                          !.ret = StorageGet(storageKey).ret,
                          !.got = StorageGet(storageKey).got, !.want = written]
    /\ UNCHANGED <<medium, cachedKey, written>>
    /\ AdapterFrame

AdapterDel ==
    /\ microtasks = <<>>
    /\ nmuts < MaxOps
    /\ nmuts' = nmuts + 1
    /\ StorageDel(storageKey)
    /\ ev' = [NoEv EXCEPT !.e = "del", !.calls = {"del"}]
    /\ UNCHANGED <<microtasks, io, cachedKey>>
    /\ AdapterFrame

\* The code that awaits a get call resumes with what get returned.
GetResumes ==
    /\ microtasks # <<>> /\ Head(microtasks).k = "loadCont"
    /\ microtasks' = Tail(microtasks)
    /\ ev' = Other
    /\ UNCHANGED <<medium, io, cachedKey, nmuts, written>>
    /\ AdapterFrame

NextAdapter ==
    \/ \E v \in AdapterValues : AdapterSet(v)
    \/ AdapterGet
    \/ AdapterDel
    \/ GetResumes
    \/ \E i \in 1..Len(io) : IoComplete(i)
SpecAdapter == InitAdapter /\ [][NextAdapter]_vars

\* ---------------------------------------------------------- properties
MutationCalls == {"update", "set", "reset"}

\* The mutation calls whose notification pass has not run yet.
PendingNotifies ==
    Cardinality({i \in 1..Len(microtasks) : microtasks[i].k = "notify"})

\* C1: without a storage key, as long as every mutation call was an update,
\* getState() is the left fold of the updaters over the initial value,
\* whenever the calls were made.
C1_UpdatesFold ==
    (storageKey = "" /\ fold # Null) => state = fold

\* C2: the notification pass of an update, set or reset call hands the
\* listeners the value that call produced, invokes the listeners registered
\* when the call was made, each once, and the passes run in call order.
C2_NotifiesProducedValue ==
    ev.e = "notify" =>
        /\ ev.v = ev.want
        /\ ev.reg <=> (\E i \in 1..Len(ev.ls) : ev.ls[i] = Observed)
        /\ \A i, j \in 1..Len(ev.ls) : ev.ls[i] = ev.ls[j] => i = j
        /\ ev.src = nmuts - PendingNotifies

\* C3: when an update, set or reset call has returned, its listeners have
\* been invoked: no state has a mutation call that awaits its notification
\* pass, so nothing can come between the two.
C3_NotifiedOnReturn ==
    PendingNotifies = 0

\* C4: without a storage key no step invokes an Adapter operation: none is
\* called, none is in flight, and the medium stays as it was.
C4_NoAdapterCallWithoutKey ==
    storageKey = "" => (ev.calls = {} /\ io = <<>> /\ medium = NoItem)

\* C4's case: the debounce timer of a Store without a storage key expired.
C4_Witness ==
    storageKey = "" /\ ev.e = "fire" /\ nmuts > 0

\* C5: at most one timer is outstanding, and it is the one debounceTimeout
\* names; a mutation call leaves exactly the timer it set, with the whole
\* quiet interval to run; the timer that fires is the last one set.
C5_OneTimer ==
    /\ Cardinality(timers) <= 1
    /\ \A t \in timers : t.id = debounceTimeout
    /\ ev.e \in MutationCalls =>
           timers = {[id |-> debounceTimeout, left |-> debounceDelayInMs]}
    /\ ev.e = "fire" => ev.id = debounceTimeout

\* C5's case: a mutation call found a timer pending that had run for part
\* of its interval, and replaced it.
C5_Witness ==
    /\ ev.e \in MutationCalls /\ ev.rearm /\ ev.since > 0
    /\ Cardinality(timers) = 1

\* C6 as stated: with a storage key, the timer callback runs a whole quiet
\* interval after the last mutation call, is the only write of its burst,
\* and hands storage.set the value that last mutation call produced.
C6_WriteCarriesLastMutation ==
    (storageKey # "" /\ ev.e = "fire") =>
        /\ ev.calls = {"set"}
        /\ ev.since = debounceDelayInMs
        /\ ev.burst >= 1
        /\ intact

\* C6 amended: with a storage key, the timer callback runs a whole quiet
\* interval after the last mutation call, is the only write of its burst,
\* and hands storage.set the in-memory value of that moment, which is the
\* value of the last mutation call unless the load completion ran after
\* it; a write is pending exactly while a burst has not been written.
C6_WriteCarriesCurrentState ==
    /\ (storageKey # "" /\ ev.e = "fire") =>
           /\ ev.calls = {"set"}
           /\ ev.since = debounceDelayInMs
           /\ ev.burst >= 1
           /\ ev.v = state
           /\ intact \/ load # "pending"
    /\ (burst > 0) <=> (timers # {})

\* C6's case: a burst of several mutation calls was written, after the
\* load completion had replaced the value the last of them produced.
C6_Witness ==
    /\ storageKey # "" /\ ev.e = "fire"
    /\ ev.burst >= 2 /\ ~intact /\ load = "present"

\* C7: set on a value that is no record leaves the value alone, sets no
\* timer and queues no notification.
C7_SetOnNonRecordRejected ==
    (ev.e = "set" /\ ~ev.rec) =>
        (ev.same /\ ~ev.armed /\ timers = {} /\ PendingNotifies = 0)

\* C8: reset leaves the in-memory value equal to the value passed at
\* construction, whatever was loaded or produced before.
C8_ResetRestoresInitial ==
    ev.e = "reset" => (state = initialState /\ ev.v = initialState)

\* C8's case: reset is the first mutation call, made after the load
\* completion replaced the initial value by a different one.
C8_Witness ==
    /\ ev.e = "reset" /\ ~ev.same
    /\ ev.load = "present" /\ nmuts = 1

\* C9: with a storage key, the load completion runs once and, when a record
\* was loaded, sets the value to it and notifies the listeners registered
\* then; the notification pass of a mutation call made before the load
\* completion runs before it.
C9_LoadRace ==
    storageKey # "" =>
        /\ ev.e = "loadDone" => ev.load = "pending"
        /\ (ev.e = "loadDone" /\ ~ev.absent) =>
               (state = ev.v /\ ev.v = ev.want /\ ev.ls = listeners)
        /\ (ev.e = "notify" /\ ev.pre) => load # "present"

\* C10: a load that yields no value leaves the in-memory value as it was
\* just before the load completion.
C10_AbsentLoadKeepsValue ==
    (storageKey # "" /\ ev.e = "loadDone" /\ ev.absent) => ev.same

\* C11: a notification pass invokes a listener only if the listener was
\* registered when the mutation call of the pass was made; a listener
\* unsubscribed before the call is not invoked for it.
C11_InvokedOnlyIfRegisteredAtCall ==
    ev.e = "notify" =>
        ((\E i \in 1..Len(ev.ls) : ev.ls[i] = Observed) => ev.reg)

NoDuplicates(seq) == \A i, j \in 1..Len(seq) : seq[i] = seq[j] => i = j
Passes == {"notify", "loadDone"}

\* C12: the registry holds a callback once, however often it is subscribed,
\* and a notification pass invokes it once.
C12_IdentityUnique ==
    /\ NoDuplicates(listeners)
    /\ ev.e \in Passes => NoDuplicates(ev.ls)
    /\ (ev.e = "subscribe" /\ ev.dup) => Len(listeners) <= MaxListeners

\* C12's case: a callback that was registered already was subscribed again.
C12_Witness ==
    ev.e = "subscribe" /\ ev.dup /\ PendingNotifies > 0

\* C13: a listener unsubscribed during a notification pass is not invoked
\* after that in the pass and is registered no more; every other listener
\* registered when the pass began is invoked exactly once in it; a pass
\* invokes only listeners registered when it began.
C13_UnsubscribeDuringPass ==
    ev.e \in Passes =>
        /\ \A i \in 1..Len(ev.ls) : \E j \in 1..Len(ev.before) : ev.before[j] = ev.ls[i]
        /\ ev.un # NoListener =>
               /\ \A i \in 1..Len(listeners) : listeners[i] # ev.un
               /\ \A i, j \in 1..Len(ev.ls) :
                      (ev.ls[i] = ev.by /\ ev.ls[j] = ev.un) => j <= i
               /\ \A j \in 1..Len(ev.before) :
                      ev.before[j] # ev.un =>
                          Cardinality({i \in 1..Len(ev.ls) : ev.ls[i] = ev.before[j]}) = 1
               /\ Cardinality({i \in 1..Len(ev.ls) : ev.ls[i] = ev.un}) <= 1

\* C13's case: a listener invoked in a pass unsubscribed another one that
\* the pass had not reached yet.
C13_Witness ==
    /\ ev.e = "notify" /\ ev.un # NoListener /\ ev.un # ev.by
    /\ \E j \in 1..Len(ev.before) : ev.before[j] = ev.un
    /\ \A i \in 1..Len(ev.ls) : ev.ls[i] # ev.un

\* A record that does not parse, or that the adapter's key does not
\* decrypt: nothing under the key, no JSON, no base64, a cipher written
\* under another passphrase, truncated or altered, or a medium that cannot
\* be read at all.
Unreadable(item) ==
    \/ NoStorage(storageKey)
    \/ item.kind \in {"none", "garbage"}
    \/ encryptKey = "" /\ item.kind = "cipher"
    \/ encryptKey # "" /\ (item.kind # "cipher" \/ item.pass # encryptKey)

\* C14: a get call that returns hands its caller a value, never an error,
\* and the value is null whenever the record is missing or unreadable.
C14_GetNeverRaises ==
    ev.ret => (ev.got # Thrown /\ (Unreadable(ev.item) => ev.got = Null))

\* C14's case: the encrypting adapter read a cipher its key does not
\* decrypt, and get returned null.
C14_Witness ==
    /\ ev.ret /\ encryptKey # ""
    /\ ev.item.kind = "cipher" /\ ev.item.pass # encryptKey
    /\ ev.got = Null

\* C15: a get call that reads the record a set call wrote under the same
\* configuration returns the value that set call was handed, type included.
C15_RoundTrip ==
    (ev.ret /\ ev.want # Null) => ev.got = ev.want

\* C15's case: the string "1" went through the encrypting adapter and came
\* back as the string "1".
C15_Witness ==
    /\ ev.ret /\ encryptKey # ""
    /\ ev.want = StrV(<<"1">>) /\ ev.got = StrV(<<"1">>)

\* C16: a get call that reads a record with a type tag other than number,
\* boolean, object, array and string returns null, and a Store created over
\* such a record holds its initial value once the load has completed.
C16_UnknownTagIsMiss ==
    /\ (ev.ret /\ ev.item.kind = "envelope" /\ ev.item.type \notin KnownTags) =>
           ev.got = Null
    /\ (/\ storageKey # "" /\ encryptKey = "" /\ nmuts = 0 /\ load # "pending"
        /\ medium.kind = "envelope" /\ medium.type \notin KnownTags) =>
           state = initialState

\* C17: a step in which a save is issued or ends, failed or not, leaves
\* the in-memory value and the listener registry as they were and queues
\* nothing for the caller's code.
C17_SaveFailureAbsorbed ==
    [][ev'.e \in {"fire", "write"} =>
           (state' = state /\ listeners' = listeners /\ microtasks' = microtasks)]_vars

\* C17's case: the encryption or the write of a save failed, for a Store
\* that has a listener and a value other than its initial value.
C17_Witness ==
    /\ ev.e = "write" /\ ev.failed
    /\ listeners # <<>> /\ state # initialState

\* In a host without localStorage no Adapter call reads or writes a medium,
\* starts a WebCrypto operation or fails, and every get returns null.
AdapterIsNoOp ==
    /\ medium = NoItem /\ written = Null /\ io = <<>>
    /\ ~ev.failed
    /\ ev.ret => ev.got = Null

\* C18: in a host without localStorage every Adapter operation is a no-op,
\* and the Store holds what an in-memory store seeded with the initial value
\* holds: as long as every mutation call was an update, the left fold of the
\* updaters over the initial value.
C18_UnavailableMediumInMemory ==
    ~hostAvailable =>
        /\ AdapterIsNoOp
        /\ fold # Null => state = fold

\* C19: with a passphrase, a step that changes what the medium holds under
\* the storage key stores a record encrypted under that passphrase, whose
\* plaintext is the envelope of the value being saved; a failed encryption
\* or setItem leaves the medium as it was.
C19_EncryptedAtRest ==
    [][encryptKey # "" =>
          \/ medium' = medium
          \/ /\ ev'.e = "write" /\ ~ev'.failed
             /\ medium'.kind = "cipher" /\ medium'.pass = encryptKey
             /\ Decrypted(medium') = EnvelopeOf(ev'.v)]_vars

\* C19's case: a Store with a passphrase that loaded a stored record saved
\* its state after a mutation call, and the medium holds a cipher record.
C19_Witness ==
    /\ encryptKey # "" /\ ev.e = "write" /\ ~ev.failed
    /\ medium.kind = "cipher" /\ load = "present" /\ nmuts > 0

\* C20: a mutation call arms the debounce timer after its notification
\* pass: when the call has armed the timer, no notification pass of that
\* call is still to run.
C20_NotifiedBeforeArmed ==
    (ev.e \in MutationCalls /\ ev.armed /\ timers # {}) =>
        \A i \in 1..Len(microtasks) :
            ~(microtasks[i].k = "notify" /\ microtasks[i].src = ev.src)

\* The LupiStorage calls in flight that are deriving the key: awaiting
\* crypto.subtle.importKey or crypto.subtle.deriveKey in getKey.
Deriving == {i \in 1..Len(io) : io[i].stage \in {"importKey", "deriveKey"}}

\* C21: the key is derived once: no two calls in flight are deriving it at
\* the same time, and none is deriving it once it is cached.
C21_KeyDerivedOnce ==
    /\ Cardinality(Deriving) <= 1
    /\ cachedKey => Deriving = {}

\* C22: without a storage key the constructor's load completion neither
\* changes the in-memory value nor invokes a listener.
C22_NoKeyNoLoadCompletion ==
    (storageKey = "" /\ ev.e = "loadDone") => (ev.same /\ ev.ls = <<>>)

\* What a get of this Store's adapter would return for the record the medium
\* holds now.
Stored ==
    IF medium = NoItem THEN Null
    ELSE IF encryptKey = "" THEN ParseRecord(medium)
    ELSE IF medium.kind = "cipher" /\ medium.pass = encryptKey
         THEN ParseRecord(Decrypted(medium))
    ELSE Null

\* No timer is pending, no LupiStorage call is in flight, the load has
\* completed and no microtask is left.
Quiescent ==
    timers = {} /\ io = <<>> /\ microtasks = <<>> /\ load # "pending"

\* C23: with a storage key and localStorage, once a mutation call was made,
\* in every quiescent state the record in the medium decodes to the
\* in-memory value.
C23_QuiescentConsistency ==
    (storageKey # "" /\ hostAvailable /\ nmuts > 0 /\ Quiescent) => Stored = state

RemoveAt(seq, j) == SubSeq(seq, 1, j - 1) \o SubSeq(seq, j + 1, Len(seq))

\* C24: set calls take effect in call order: when a set call writes its
\* record to the medium, no set call made before it with another value is
\* still in flight, to overwrite that record later.
C24_WritesInCallOrder ==
    [][(ev'.e = "write" /\ ~ev'.failed) =>
          \E j \in 1..Len(io) :
              /\ io' = RemoveAt(io, j)
              /\ io[j].op = "set" /\ io[j].v = ev'.v
              /\ \A i \in 1..(j - 1) : io[i].op = "set" => io[i].v = ev'.v]_vars

\* C25: a dispatch call made after the load completion assigns a result
\* computed from the value held just before the assignment: no other
\* mutation replaced the value the action was handed.
C25_DispatchLosesNoUpdate ==
    (ev.e = "dispatched" /\ ~ev.pre) => ~ev.stale

\* The text LupiStorage.get parses for the record the medium holds: the
\* record itself without a passphrase, what it decrypts to with one.
Plaintext ==
    IF encryptKey = "" THEN medium
    ELSE IF medium.kind = "cipher" /\ medium.pass = encryptKey THEN Decrypted(medium)
    ELSE NoItem

\* C26: while the Store has written nothing, the load completion over the
\* record of 0, false or "" sets the in-memory value to that value, and the
\* load is taken as absent only over a missing or unreadable record.
C26_FalsyRecordIsLoaded ==
    (ev.e = "loadDone" /\ written = Null) =>
        /\ \A f \in FalsyValues :
               Plaintext = EnvelopeOf(f) => (state = f /\ ev.v = f /\ ~ev.absent)
        /\ ev.absent => Plaintext.kind # "envelope"

\* C26's case: the load completion of a Store created with a truthy initial
\* value over the record of a falsy value.
C26_Witness ==
    /\ ev.e = "loadDone" /\ written = Null
    /\ Plaintext.kind = "envelope" /\ state \in FalsyValues /\ state # initialState

\* C27: the load completion leaves the timers and debounceTimeout as they
\* were, calls no Adapter operation and leaves the medium alone; only an
\* update, set or reset call, or the assignment of a dispatch, sets a timer.
C27_LoadCompletionArmsNothing ==
    [][/\ ev'.e = "loadDone" =>
             /\ timers' = timers /\ debounceTimeout' = debounceTimeout
             /\ ev'.calls = {} /\ io' = io /\ medium' = medium
       /\ debounceTimeout' # debounceTimeout =>
             ev'.e \in MutationCalls \cup {"dispatched"}]_vars

\* C27's case: the load completion replaced the in-memory value while the
\* timer of an earlier mutation call was pending.
C27_Witness ==
    /\ ev.e = "loadDone" /\ ~ev.absent /\ ~ev.same
    /\ timers # {} /\ nmuts > 0

====
